---- MODULE Spec2Model ----
(***************************************************************************)
(* Model of tradingview-rs' event dispatch layer                           *)
(*   src/live/handler/types.rs   TradingViewHandler, create_handler        *)
(*   src/models/pine_indicator.rs PineIndicator::to_study_inputs           *)
(***************************************************************************)
EXTENDS Integers, Sequences, FiniteSets, TLC

VARIABLES
    registry,      \* TradingViewHandler: field name -> bound callback
    chan,          \* values enqueued on the UnboundedSender and not yet received
    received,      \* values the UnboundedReceiver has yielded so far
    rxOpen,        \* the receiving half is alive and not closed
    diag,          \* tracing events emitted so far, in order
    calls,         \* handler invocations made so far, in order
    nset,          \* number of setter calls made so far
    indicator,     \* the PineIndicator to_study_inputs is called on
    study_inputs,  \* last result of to_study_inputs, or NotComputed
    setKinds,      \* the fields whose setter was called on registry so far
    clone,         \* a second TradingViewHandler made by registry.clone(), or NoClone
    producers,     \* per concurrent producer: where it is in its handler invocation
    script_type    \* outcome of the last ScriptType::from(String), or NotConverted

vars == <<registry, chan, received, rxOpen, diag, calls, nset, indicator, study_inputs,
          setKinds, clone, producers, script_type>>

(***************************************************************************)
(* Bounds                                                                  *)
(***************************************************************************)
MaxCalls == 2        \* handler invocations in the bridge specification
MaxSetterCalls == 2  \* setter calls in the registry specification
MaxRegCalls == 1     \* handler invocations in the registry specification
MaxInputs == 2       \* length of metadata.data.inputs
MaxProducerCalls == 3 \* handler invocations of the concurrent producers together
MaxCloneSetters == 1 \* setter calls on the cloned registry
MaxCloneCalls == 2   \* handler invocations through the original and the clone together

(***************************************************************************)
(* The sixteen fields of TradingViewHandler, in declaration order          *)
(***************************************************************************)
Fields ==
    << "on_symbol_info", "on_series_loading", "on_chart_data", "on_series_completed",
       "on_study_loading", "on_study_data", "on_study_completed", "on_quote_data",
       "on_quote_completed", "on_replay_ok", "on_replay_point", "on_replay_instance_id",
       "on_replay_resolutions", "on_replay_data_end", "on_error", "on_unknown_event" >>

Kinds == { Fields[i] : i \in 1..Len(Fields) }

\* serde_json::Value, as its JSON type and text
JsonValue(t, v) == [t |-> t, v |-> v]

\* Vec<Value>: the raw argument sequence of one wire event
RawVec(items) == [ty |-> "Vec<Value>", items |-> items]

\* an already-structured payload component (SymbolInfo, SeriesInfo, ...)
Typed(ty, v) == [ty |-> ty, v |-> v]

\* ustr::Ustr: an interned string
Ustr(s) == [ty |-> "Ustr", s |-> s]

\* Ustr -> String (event.into())
UstrInto(u) == [ty |-> "String", s |-> u.s]

RawPayloads ==
    { RawVec(<< JsonValue("string", "cs_1"), JsonValue("array", "sds_1,s1") >>),
      RawVec(<< JsonValue("string", "cs_1") >>),
      RawVec(<< JsonValue("string", "cs_1"), JsonValue("number", "7") >>) }

OneRaw == { RawVec(<< JsonValue("string", "cs_1"), JsonValue("array", "sds_1,s1") >>) }

\* the arguments a handler of each field is called with: one tuple per call
Payloads(k) ==
    CASE k = "on_symbol_info" -> { << Typed("SymbolInfo", "AAPL") >> }
      [] k \in {"on_series_loading", "on_study_loading"} -> { << r >> : r \in RawPayloads }
      [] k = "on_chart_data" ->
            { << Typed("SeriesInfo", "sds_1"), Typed("Vec<DataPoint>", d) >> : d \in {"", "p1,p2"} }
      [] k = "on_study_data" ->
            { << Typed("StudyOptions", "st_1"), Typed("StudyResponseData", "d1") >> }
      [] k = "on_quote_data" -> { << Typed("QuoteValue", "q1") >> }
      [] k = "on_error" ->
            { << Typed("Error", e), r >> : e \in {"e1", "e2"}, r \in OneRaw }
      [] k = "on_unknown_event" ->
            { << Ustr(n), r >> : n \in {"evt_a", "evt_b"}, r \in OneRaw }
      [] OTHER -> { << r >> : r \in OneRaw }

\* the payloads among them that are valid for k: a loading payload that decodes
\* (a session identifier and the series list), any payload of another kind
ValidPayloads(k) ==
    IF k \in {"on_series_loading", "on_study_loading"}
    THEN { << r >> : r \in OneRaw }
    ELSE Payloads(k)

(***************************************************************************)
(* tokio::sync::mpsc unbounded channel, as DataTx / DataRx use it          *)
(***************************************************************************)
\* a send that enqueues at the head instead of the tail
SendFront(ch, open, v) ==
    IF open THEN [ok |-> TRUE, chan |-> << v >> \o ch]
            ELSE [ok |-> FALSE, chan |-> ch]

\* a send through a channel that keeps only the latest value
SendLatestOnly(ch, open, v) ==
    IF open THEN [ok |-> TRUE, chan |-> << v >>]
            ELSE [ok |-> FALSE, chan |-> ch]

\* UnboundedSender::send: enqueue at the tail, or Err when the receiver is gone
Send(ch, open, v) ==
    IF open THEN [ok |-> TRUE, chan |-> Append(ch, v)]
            ELSE [ok |-> FALSE, chan |-> ch]

\* TradingViewResponse::<tag>(fields...)
Response(tag, fields) == [tag |-> tag, fields |-> fields]

\* tracing::trace! of default_callback
TraceEvent(name) == [level |-> "trace", msg |-> "Callback trigger on", what |-> name]

\* tracing::error!("Failed to send <what> response: {}", e)
SendError(what) == [level |-> "error", msg |-> "Failed to send response", what |-> what]

\* tracing::error!("Failed to parse LoadingMsg from data: {:?}", data)
ParseError == [level |-> "error", msg |-> "Failed to parse LoadingMsg from data", what |-> "LoadingMsg"]

(***************************************************************************)
(* LoadingMsg::new (live::handler::message): a session identifier followed *)
(* by the series list; any other shape is a decode error                   *)
(***************************************************************************)
LoadingMsgNew(data) ==
    IF /\ Len(data.items) >= Len(<<"session", "series">>)
       /\ data.items[1].t = "string"
       /\ data.items[2].t = "array"
    THEN [ok |-> TRUE,
          msg |-> [ty |-> "LoadingMsg", session |-> data.items[1].v, series |-> data.items[2].v]]
    ELSE [ok |-> FALSE, msg |-> [ty |-> "LoadingMsg", session |-> "", series |-> ""]]

\* the parse failure is logged but the handler does not return
series_loading_no_return(args, ch, open) ==
    LET m == LoadingMsgNew(args[1])
        r == Send(ch, open, [tag |-> "SeriesLoading", fields |-> << m.msg >>])
    IN  IF ~m.ok
        THEN [chan |-> r.chan, attempts |-> 1,
              diag |-> << [level |-> "error", msg |-> "Failed to parse LoadingMsg from data", what |-> "LoadingMsg"] >>]
        ELSE [chan |-> r.chan, attempts |-> 1,
              diag |-> IF r.ok THEN <<>>
                       ELSE << [level |-> "error", msg |-> "Failed to send response", what |-> "SeriesLoading"] >>]

\* the study-loading closure pasted from series-loading with the variant left as it was
study_loading_as_series(args, ch, open) ==
    LET m == LoadingMsgNew(args[1])
        r == Send(ch, open, [tag |-> "SeriesLoading", fields |-> << m.msg >>])
    IN  IF ~m.ok
        THEN [chan |-> ch, attempts |-> 0,
              diag |-> << [level |-> "error", msg |-> "Failed to parse LoadingMsg from data", what |-> "LoadingMsg"] >>]
        ELSE [chan |-> r.chan, attempts |-> 1,
              diag |-> IF r.ok THEN <<>>
                       ELSE << [level |-> "error", msg |-> "Failed to send response", what |-> "StudyLoading"] >>]

(***************************************************************************)
(* The closures create_handler installs.  Each takes the call's arguments  *)
(* and the channel, and yields the channel afterwards and the tracing      *)
(* events it emitted.                                                      *)
(***************************************************************************)
\* if let Err(e) = tx.send(v) { tracing::error!(...) }
SendOrLog(ch, open, v, what) ==
    LET r == Send(ch, open, v)
    IN  [chan |-> r.chan, diag |-> IF r.ok THEN <<>> ELSE << SendError(what) >>, attempts |-> 1]

\* let _ = tx.send(v);
SendIgnore(ch, open, v) ==
    LET r == Send(ch, open, v)
    IN  [chan |-> r.chan, diag |-> <<>>, attempts |-> 1]

create_handler_on_symbol_info(args, ch, open) ==
    SendIgnore(ch, open, Response("SymbolInfo", << args[1] >>))

create_handler_on_series_loading(args, ch, open) ==
    LET m == LoadingMsgNew(args[1])
    IN  IF ~m.ok
        THEN [chan |-> ch, diag |-> << ParseError >>, attempts |-> 0]
        ELSE SendOrLog(ch, open, Response("SeriesLoading", << m.msg >>), "SeriesLoading")

\* the chart-data closure forwarding the series descriptor without its data points
chart_data_points_dropped(args, ch, open) ==
    SendOrLog(ch, open, Response("ChartData", << args[1], Typed("Vec<DataPoint>", "") >>), "ChartData")

create_handler_on_chart_data(args, ch, open) ==
    SendOrLog(ch, open, Response("ChartData", << args[1], args[2] >>), "ChartData")

create_handler_on_series_completed(args, ch, open) ==
    SendOrLog(ch, open, Response("SeriesCompleted", << args[1] >>), "SeriesCompleted")

\* the study-loading closure sending before it looks at the decode result
study_loading_send_first(args, ch, open) ==
    LET m == LoadingMsgNew(args[1])
        r == SendOrLog(ch, open, Response("StudyLoading", << m.msg >>), "StudyLoading")
    IN  IF ~m.ok
        THEN [chan |-> r.chan, diag |-> r.diag \o << ParseError >>, attempts |-> 1]
        ELSE r

create_handler_on_study_loading(args, ch, open) ==
    LET m == LoadingMsgNew(args[1])
    IN  IF ~m.ok
        THEN [chan |-> ch, diag |-> << ParseError >>, attempts |-> 0]
        ELSE SendOrLog(ch, open, Response("StudyLoading", << m.msg >>), "StudyLoading")

create_handler_on_study_data(args, ch, open) ==
    SendOrLog(ch, open, Response("StudyData", << args[1], args[2] >>), "StudyData")

create_handler_on_study_completed(args, ch, open) ==
    SendOrLog(ch, open, Response("StudyCompleted", << args[1] >>), "StudyCompleted")

create_handler_on_quote_data(args, ch, open) ==
    SendOrLog(ch, open, Response("QuoteData", << args[1] >>), "QuoteData")

\* the quote-completed event sent twice
quote_completed_sent_twice(args, ch, open) ==
    LET once == SendOrLog(ch, open, Response("QuoteCompleted", << args[1] >>), "QuoteCompleted")
        twice == SendOrLog(once.chan, open, Response("QuoteCompleted", << args[1] >>), "QuoteCompleted")
    IN  [chan |-> twice.chan, diag |-> once.diag \o twice.diag, attempts |-> 2]

create_handler_on_quote_completed(args, ch, open) ==
    SendOrLog(ch, open, Response("QuoteCompleted", << args[1] >>), "QuoteCompleted")

create_handler_on_replay_ok(args, ch, open) ==
    SendOrLog(ch, open, Response("ReplayOk", << args[1] >>), "ReplayOk")

create_handler_on_replay_point(args, ch, open) ==
    SendOrLog(ch, open, Response("ReplayPoint", << args[1] >>), "ReplayPoint")

create_handler_on_replay_instance_id(args, ch, open) ==
    SendOrLog(ch, open, Response("ReplayInstanceId", << args[1] >>), "ReplayInstanceId")

create_handler_on_replay_resolutions(args, ch, open) ==
    SendOrLog(ch, open, Response("ReplayResolutions", << args[1] >>), "ReplayResolutions")

create_handler_on_replay_data_end(args, ch, open) ==
    SendOrLog(ch, open, Response("ReplayDataEnd", << args[1] >>), "ReplayDataEnd")

create_handler_on_error(args, ch, open) ==
    SendOrLog(ch, open, Response("Error", << args[1], args[2] >>), "Error")

create_handler_on_unknown_event(args, ch, open) ==
    SendOrLog(ch, open, Response("UnknownEvent", << UstrInto(args[1]), args[2] >>), "UnknownEvent")

\* the closure create_handler binds to field k, applied
ForwardingClosure(k, args, ch, open) ==
    CASE k = "on_symbol_info"        -> create_handler_on_symbol_info(args, ch, open)
      [] k = "on_series_loading"     -> create_handler_on_series_loading(args, ch, open)
      [] k = "on_chart_data"         -> create_handler_on_chart_data(args, ch, open)
      [] k = "on_series_completed"   -> create_handler_on_series_completed(args, ch, open)
      [] k = "on_study_loading"      -> create_handler_on_study_loading(args, ch, open)
      [] k = "on_study_data"         -> create_handler_on_study_data(args, ch, open)
      [] k = "on_study_completed"    -> create_handler_on_study_completed(args, ch, open)
      [] k = "on_quote_data"         -> create_handler_on_quote_data(args, ch, open)
      [] k = "on_quote_completed"    -> create_handler_on_quote_completed(args, ch, open)
      [] k = "on_replay_ok"          -> create_handler_on_replay_ok(args, ch, open)
      [] k = "on_replay_point"       -> create_handler_on_replay_point(args, ch, open)
      [] k = "on_replay_instance_id" -> create_handler_on_replay_instance_id(args, ch, open)
      [] k = "on_replay_resolutions" -> create_handler_on_replay_resolutions(args, ch, open)
      [] k = "on_replay_data_end"    -> create_handler_on_replay_data_end(args, ch, open)
      [] k = "on_error"              -> create_handler_on_error(args, ch, open)
      [] k = "on_unknown_event"      -> create_handler_on_unknown_event(args, ch, open)

(***************************************************************************)
(* Callback values (Arc<CallbackFn<T>>) and the registry                   *)
(***************************************************************************)
\* default_callback::<T>(name): the closure that only traces
default_callback(name) == [fn |-> "default_callback", name |-> name]

\* a closure of create_handler, holding a clone of tx
forwarding_callback(k) == [fn |-> "create_handler", name |-> k]

\* a caller-supplied function passed to a setter
user_callback(f) == [fn |-> "user", name |-> f]

\* a builder member that was never set
Unset == [fn |-> "unset", name |-> ""]

UserFns == {"f"}

\* the name each #[builder(default = default_callback::<T>(..))] passes
DefaultName(k) ==
    CASE k = "on_symbol_info"        -> "ON_SYMBOL_INFO"
      [] k = "on_series_loading"     -> "ON_SERIES_LOADING"
      [] k = "on_chart_data"         -> "ON_CHART_DATA"
      [] k = "on_series_completed"   -> "ON_SERIES_COMPLETED"
      [] k = "on_study_loading"      -> "ON_STUDY_LOADING"
      [] k = "on_study_data"         -> "ON_STUDY_DATA"
      [] k = "on_study_completed"    -> "ON_STUDY_COMPLETED"
      [] k = "on_quote_data"         -> "ON_QUOTE_DATA"
      [] k = "on_quote_completed"    -> "ON_QUOTE_COMPLETED"
      [] k = "on_replay_ok"          -> "ON_REPLAY_OK"
      [] k = "on_replay_point"       -> "ON_REPLAY_POINT"
      [] k = "on_replay_instance_id" -> "ON_REPLAY_INSTANCE_ID"
      [] k = "on_replay_resolutions" -> "ON_REPLAY_RESOLUTIONS"
      [] k = "on_replay_data_end"    -> "ON_REPLAY_DATA_END"
      [] k = "on_error"              -> "ON_ERROR"
      [] k = "on_unknown_event"      -> "ON_UNKNOWN_EVENT"

\* a build() that applies no #[builder(default)]
BuilderBuildNoDefault(given) == [k \in Kinds |-> given[k]]

\* TradingViewHandler::builder()...build(): members the caller set keep their
\* value, every other member takes its #[builder(default)]
BuilderBuild(given) ==
    [k \in Kinds |-> IF given[k] # Unset THEN given[k] ELSE default_callback(DefaultName(k))]

\* impl Default for TradingViewHandler
TradingViewHandlerDefault == BuilderBuild([k \in Kinds |-> Unset])

\* create_handler(tx): every member set to its forwarding closure, then build()
create_handler == BuilderBuild([k \in Kinds |-> forwarding_callback(k)])

\* a clone that is built afresh instead of sharing the handlers
derive_clone_fresh(self) == TradingViewHandlerDefault

\* #[derive(Clone)]: Arc::clone of each of the sixteen fields
derive_clone(self) == [k \in DOMAIN self |-> self[k]]

\* the event_setter! invocations of impl TradingViewHandler, in source order
SetterNames ==
    << "on_chart_data", "on_quote_data", "on_study_data", "on_error", "on_symbol_info",
       "on_series_completed", "on_series_loading", "on_quote_completed", "on_replay_ok",
       "on_replay_point", "on_replay_instance_id", "on_replay_resolutions",
       "on_replay_data_end", "on_study_loading", "on_study_completed", "on_unknown_event" >>

Setters == { SetterNames[i] : i \in 1..Len(SetterNames) }

\* a setter whose macro invocation names the wrong field
event_setter_wrong_field(self, name, f) ==
    IF name = "on_study_loading"
    THEN [self EXCEPT !["on_series_loading"] = [fn |-> "user", name |-> f]]
    ELSE [self EXCEPT ![name] = [fn |-> "user", name |-> f]]

\* a setter that builds the new callback and does not store it
event_setter_not_stored(self, name, f) == self

\* event_setter!: self.$name = Arc::new(Box::new(f)); self
event_setter(self, name, f) == [self EXCEPT ![name] = user_callback(f)]

\* a default callback that emits nothing
default_callback_silent(name, args, ch, open) == [chan |-> ch, diag |-> <<>>, attempts |-> 0]

\* the closure default_callback returns, applied: it traces and drops the data
default_callback_call(name, args, ch, open) ==
    [chan |-> ch, diag |-> << TraceEvent(name) >>, attempts |-> 0]

\* (callback)(args): what invoking a bound callback does
CallCallback(cb, args, ch, open) ==
    CASE cb.fn = "default_callback" -> default_callback_call(cb.name, args, ch, open)
      [] cb.fn = "create_handler"   -> ForwardingClosure(cb.name, args, ch, open)
      [] cb.fn = "user"             -> [chan |-> ch, diag |-> <<>>, attempts |-> 0]


(***************************************************************************)
(* PineIndicator::to_study_inputs                                          *)
(***************************************************************************)
\* HashMap::new() and HashMap::insert (an existing key is overwritten)
EmptyMap == [x \in {} |-> x]

MapInsert(m, key, val) ==
    [x \in (DOMAIN m) \cup {key} |-> IF x = key THEN val ELSE m[x]]

\* IndicatorInput::String(..) and IndicatorInput::IndicatorInput(InputValue { v, f, t })
IndicatorInputString(u) == [variant |-> "String", s |-> u]

IndicatorInputValue(v, f, t) == [variant |-> "IndicatorInput", v |-> v, f |-> f, t |-> t]

\* Value::from(bool), Value::from(String)
ValueFromBool(b) == JsonValue("bool", IF b THEN "true" ELSE "false")

ValueFromString(str) == JsonValue("string", str)

\* Ustr::from(&str) / Ustr::from(&String) / Ustr::from(&Ustr)
UstrFrom(str) == Ustr(str)

\* PineInput
PineInput(name, id, defval, is_fake, input_type) ==
    [name |-> name, id |-> id, defval |-> defval, is_fake |-> is_fake, input_type |-> input_type]

\* the loop body without the reserved-name check
InsertInputNoSkip(m, input) ==
    MapInsert(m, UstrFrom(input.id),
              IndicatorInputValue(input.defval,
                                  ValueFromBool(input.is_fake),
                                  ValueFromString(input.input_type)))

\* the loop body with the fake-flag lost
InsertInputFakeDropped(m, input) ==
    IF input.id = "text" \/ input.id = "pineId" \/ input.id = "pineVersion"
    THEN m
    ELSE MapInsert(m, UstrFrom(input.id),
                   IndicatorInputValue(input.defval,
                                       ValueFromBool(FALSE),
                                       ValueFromString(input.input_type)))

\* the loop body with the reserved check made on the name
InsertInputSkipByName(m, input) ==
    IF input.name = "text" \/ input.name = "pineId" \/ input.name = "pineVersion"
    THEN m
    ELSE MapInsert(m, UstrFrom(input.id),
                   IndicatorInputValue(input.defval,
                                       ValueFromBool(input.is_fake),
                                       ValueFromString(input.input_type)))

\* the closure of for_each, applied to one input
InsertInput(m, input) ==
    IF input.id = "text" \/ input.id = "pineId" \/ input.id = "pineVersion"
    THEN m
    ELSE MapInsert(m, UstrFrom(input.id),
                   IndicatorInputValue(input.defval,
                                       ValueFromBool(input.is_fake),
                                       ValueFromString(input.input_type)))

\* self.metadata.data.inputs.iter().for_each(..), from index i on
RECURSIVE ForEachInput(_, _, _)
ForEachInput(m, inputs, i) ==
    IF i > Len(inputs) THEN m
    ELSE ForEachInput(InsertInput(m, inputs[i]), inputs, i + 1)

\* the seeding with the pineVersion insert missing
SeedReservedNoVersion(self) ==
    MapInsert(
        MapInsert(EmptyMap, UstrFrom("text"), IndicatorInputString(UstrFrom(self.il_template.s))),
        UstrFrom("pineId"), IndicatorInputString(UstrFrom(self.script_id.s)))

\* the three reserved entries inserted before the loop
SeedReserved(self) ==
    MapInsert(
        MapInsert(
            MapInsert(EmptyMap, UstrFrom("text"), IndicatorInputString(UstrFrom(self.il_template.s))),
            UstrFrom("pineId"), IndicatorInputString(UstrFrom(self.script_id.s))),
        UstrFrom("pineVersion"), IndicatorInputString(UstrFrom(self.script_version.s)))

\* Serialize for IndicatorInput (chart::study): a bare string, or {v, f, t}
SerializeIndicatorInput(x) ==
    IF x.variant = "String"
    THEN [t |-> "string", v |-> x.s.s]
    ELSE [t |-> "object", ov |-> x.v, of |-> x.f, ot |-> x.t]

\* serde_json::to_value(HashMap<Ustr, IndicatorInput>): an object keyed by the strings
ToValue(m) ==
    [key \in { u.s : u \in DOMAIN m } |-> SerializeIndicatorInput(m[Ustr(key)])]

to_study_inputs(self) ==
    LET inputs == ForEachInput(SeedReserved(self), self.inputs, 1)
    IN  [computed |-> TRUE, ok |-> TRUE, value |-> ToValue(inputs)]

NotComputed == [computed |-> FALSE]

\* the metadata the fetch collaborator may hand over
InputIds == {"text", "pineId", "pineVersion", "in_0", "in_1"}

InputNames == {"text", "Length"}

InputShapes ==
    { << JsonValue("number", "14"), FALSE, "integer" >>,
      << JsonValue("number", "20"), FALSE, "integer" >>,
      << JsonValue("string", "close"), TRUE, "source" >> }

PineInputs ==
    { PineInput(n, i, sh[1], sh[2], sh[3]) : n \in InputNames, i \in InputIds, sh \in InputShapes }

RECURSIVE SeqsUpTo(_, _)
SeqsUpTo(S, n) ==
    IF n = 0 THEN { <<>> }
    ELSE LET shorter == SeqsUpTo(S, n - 1)
         IN  shorter \cup { Append(q, x) : q \in { r \in shorter : Len(r) = n - 1 }, x \in S }

Indicators ==
    { [script_id |-> Ustr("STD;RSI"), script_version |-> Ustr("33.0"),
       il_template |-> Ustr("tmpl"), inputs |-> ins] : ins \in SeqsUpTo(PineInputs, MaxInputs) }

NoIndicator ==
    [script_id |-> Ustr(""), script_version |-> Ustr(""), il_template |-> Ustr(""), inputs |-> <<>>]

\* no clone was made
NoClone == [k \in {} |-> k]

\* a producer between two handler invocations
Idle == [pc |-> "idle"]

Producers == {"p1", "p2"}

\* ScriptType::from was not called
NotConverted == [called |-> FALSE]

(***************************************************************************)
(* Actions                                                                 *)
(***************************************************************************)
\* the invocation over a channel of capacity 1: it waits while the buffer is full
InvokeBoundedChannel(k, args) ==
    /\ registry[k] # Unset
    /\ Len(chan) < 1
    /\ LET r == CallCallback(registry[k], args, chan, rxOpen)
       IN  /\ chan' = r.chan
           /\ diag' = diag \o r.diag
           /\ calls' = Append(calls, [field |-> k, args |-> args, cb |-> registry[k],
                                      open |-> rxOpen, via |-> "original",
                                      attempts |-> r.attempts])
    /\ UNCHANGED <<registry, received, rxOpen, nset, indicator, study_inputs>>
    /\ UNCHANGED <<setKinds, clone, producers, script_type>>

\* (handler.<k>)(args): the transport layer fires the callback bound to k
Invoke(k, args) ==
    /\ registry[k] # Unset
    /\ LET r == CallCallback(registry[k], args, chan, rxOpen)
       IN  /\ chan' = r.chan
           /\ diag' = diag \o r.diag
           /\ calls' = Append(calls, [field |-> k, args |-> args, cb |-> registry[k],
                                      open |-> rxOpen, via |-> "original",
                                      attempts |-> r.attempts])
    /\ UNCHANGED <<registry, received, rxOpen, nset, indicator, study_inputs>>
    /\ UNCHANGED <<setKinds, clone, producers, script_type>>

\* UnboundedReceiver::close(): later sends fail, buffered values stay receivable
Close ==
    /\ rxOpen
    /\ rxOpen' = FALSE
    /\ UNCHANGED <<registry, chan, received, diag, calls, nset, indicator, study_inputs>>
    /\ UNCHANGED <<setKinds, clone, producers, script_type>>

\* a recv that hands over the oldest value and discards the rest of the buffer
RecvDiscarding ==
    /\ chan # <<>>
    /\ received' = Append(received, Head(chan))
    /\ chan' = <<>>
    /\ UNCHANGED <<registry, rxOpen, diag, calls, nset, indicator, study_inputs>>
    /\ UNCHANGED <<setKinds, clone, producers, script_type>>

\* UnboundedReceiver::recv(): the consumer takes the oldest value
Recv ==
    /\ chan # <<>>
    /\ received' = Append(received, Head(chan))
    /\ chan' = Tail(chan)
    /\ UNCHANGED <<registry, rxOpen, diag, calls, nset, indicator, study_inputs>>
    /\ UNCHANGED <<setKinds, clone, producers, script_type>>

\* what each concurrent producer fires: the two draw on different fields
ProducerCalls(p) ==
    IF p = "p1"
    THEN { [field |-> "on_chart_data", args |-> a] : a \in Payloads("on_chart_data") }
            \cup { [field |-> "on_series_loading", args |-> << r >>] : r \in RawPayloads }
    ELSE { [field |-> "on_error", args |-> a] : a \in Payloads("on_error") }
            \cup { [field |-> "on_symbol_info", args |-> a] : a \in Payloads("on_symbol_info") }

\* producer p enters (handler.<field>)(args): the callback is looked up and called
ProducerBegin(p, k, args) ==
    /\ producers[p].pc = "idle"
    /\ Len(calls) < MaxProducerCalls
    /\ registry[k] # Unset
    /\ calls' = Append(calls, [field |-> k, args |-> args, cb |-> registry[k],
                               open |-> TRUE, via |-> p, attempts |-> 0])
    /\ producers' = [producers EXCEPT ![p] = [pc |-> "body", idx |-> Len(calls) + 1]]
    /\ UNCHANGED <<registry, chan, received, rxOpen, diag, nset, indicator, study_inputs>>
    /\ UNCHANGED <<setKinds, clone, script_type>>

\* the closure body of producer p runs up to and including its tx.send, which is
\* the one step that touches the channel
ProducerSend(p) ==
    /\ producers[p].pc = "body"
    /\ LET i == producers[p].idx
           r == CallCallback(calls[i].cb, calls[i].args, chan, rxOpen)
       IN  /\ chan' = r.chan
           /\ calls' = [calls EXCEPT ![i].open = rxOpen, ![i].attempts = r.attempts]
           /\ producers' = [producers EXCEPT ![p] =
                               IF r.diag = <<>> THEN Idle ELSE [pc |-> "log", out |-> r.diag]]
    /\ UNCHANGED <<registry, received, rxOpen, diag, nset, indicator, study_inputs>>
    /\ UNCHANGED <<setKinds, clone, script_type>>

\* the tracing event of producer p's closure is emitted and the callback returns
ProducerLog(p) ==
    /\ producers[p].pc = "log"
    /\ diag' = diag \o producers[p].out
    /\ producers' = [producers EXCEPT ![p] = Idle]
    /\ UNCHANGED <<registry, chan, received, rxOpen, calls, nset, indicator, study_inputs>>
    /\ UNCHANGED <<setKinds, clone, script_type>>

\* the strings ScriptType::from may be handed: two names Display produces, one unknown
ScriptTypeNames == { "Script@tv-scripting-101!", "Volume@tv-basicstudies-144", "bogus" }

\* impl From<String> for ScriptType: the body is todo!(), which panics
ScriptTypeFromString(value) == [called |-> TRUE, panicked |-> TRUE, value |-> value]

Panicked == script_type.called /\ script_type.panicked

\* ScriptType::from(value)
ScriptTypeFrom(value) ==
    /\ script_type' = ScriptTypeFromString(value)
    /\ UNCHANGED <<registry, chan, received, rxOpen, diag, calls, nset, indicator, study_inputs>>
    /\ UNCHANGED <<setKinds, clone, producers>>

\* handler.<k>(f): one of the sixteen event_setter! methods
Setter(k, f) ==
    /\ nset < MaxSetterCalls
    /\ registry' = event_setter(registry, k, f)
    /\ nset' = nset + 1
    /\ setKinds' = setKinds \cup {k}
    /\ UNCHANGED <<chan, received, rxOpen, diag, calls, indicator, study_inputs>>
    /\ UNCHANGED <<clone, producers, script_type>>

\* indicator.to_study_inputs()
ToStudyInputs ==
    /\ study_inputs = NotComputed
    /\ study_inputs' = to_study_inputs(indicator)
    /\ UNCHANGED <<registry, chan, received, rxOpen, diag, calls, nset, indicator>>
    /\ UNCHANGED <<setKinds, clone, producers, script_type>>

(***************************************************************************)
(* Specifications                                                          *)
(***************************************************************************)
InitCommon ==
    /\ chan = <<>>
    /\ received = <<>>
    /\ rxOpen = TRUE
    /\ diag = <<>>
    /\ calls = <<>>
    /\ nset = 0
    /\ setKinds = {}
    /\ clone = NoClone
    /\ producers = [p \in Producers |-> Idle]
    /\ script_type = NotConverted

\* the Dispatch Bridge: a create_handler registry, its channel and its consumer
Init ==
    /\ InitCommon
    /\ registry = create_handler
    /\ indicator = NoIndicator
    /\ study_inputs = NotComputed

Next ==
    \/ /\ Len(calls) < MaxCalls
       /\ \E k \in Kinds : \E args \in Payloads(k) : Invoke(k, args)
    \/ Close
    \/ Recv

Spec == Init /\ [][Next]_vars

\* the Callback Registry: either construction, then setters and invocations
InitRegistry ==
    /\ InitCommon
    /\ registry \in { TradingViewHandlerDefault, create_handler }
    /\ indicator = NoIndicator
    /\ study_inputs = NotComputed

NextRegistry ==
    \/ \E k \in Setters : \E f \in UserFns : Setter(k, f)
    \/ /\ Len(calls) < MaxRegCalls
       /\ \E k \in Kinds : \E args \in ValidPayloads(k) : Invoke(k, args)

SpecRegistry == InitRegistry /\ [][NextRegistry]_vars

\* the Study-Input Compiler: any indicator, compiled once
InitStudy ==
    /\ InitCommon
    /\ registry = TradingViewHandlerDefault
    /\ indicator \in Indicators
    /\ study_inputs = NotComputed

NextStudy == ToStudyInputs

SpecStudy == InitStudy /\ [][NextStudy]_vars

\* the Dispatch Bridge with a consumer that keeps draining: recv is taken
\* whenever a value stays buffered
SpecDraining == Init /\ [][Next]_vars /\ WF_vars(Recv)

\* two producers fire handlers of one create_handler registry concurrently
NextConcurrent ==
    \/ \E p \in Producers : \E c \in ProducerCalls(p) : ProducerBegin(p, c.field, c.args)
    \/ \E p \in Producers : ProducerSend(p)
    \/ \E p \in Producers : ProducerLog(p)
    \/ Close

SpecConcurrent == Init /\ [][NextConcurrent]_vars

\* the whole layer in one process: the bridge, the compiler and the script-type
\* conversion; a panic ends the process
NextLayer ==
    \/ /\ ~Panicked
       /\ Len(calls) < MaxCalls
       /\ \E k \in Kinds : \E args \in Payloads(k) : Invoke(k, args)
    \/ ~Panicked /\ Close
    \/ ~Panicked /\ Recv
    \/ ~Panicked /\ ToStudyInputs
    \/ ~Panicked /\ \E value \in ScriptTypeNames : ScriptTypeFrom(value)

SpecLayer == Init /\ [][NextLayer]_vars

\* the events fired while a clone is in use
CloneEventKinds == {"on_chart_data", "on_study_loading", "on_error"}

\* let clone = handler.clone();
CloneRegistry ==
    /\ clone = NoClone
    /\ clone' = derive_clone(registry)
    /\ UNCHANGED <<registry, chan, received, rxOpen, diag, calls, nset, indicator, study_inputs>>
    /\ UNCHANGED <<setKinds, producers, script_type>>

\* clone = clone.<k>(f)
SetterClone(k, f) ==
    /\ clone # NoClone
    /\ nset < MaxCloneSetters
    /\ clone' = event_setter(clone, k, f)
    /\ nset' = nset + 1
    /\ UNCHANGED <<registry, chan, received, rxOpen, diag, calls, indicator, study_inputs>>
    /\ UNCHANGED <<setKinds, producers, script_type>>

\* (clone.<k>)(args)
InvokeClone(k, args) ==
    /\ clone # NoClone
    /\ LET r == CallCallback(clone[k], args, chan, rxOpen)
       IN  /\ chan' = r.chan
           /\ diag' = diag \o r.diag
           /\ calls' = Append(calls, [field |-> k, args |-> args, cb |-> clone[k],
                                      open |-> rxOpen, via |-> "clone",
                                      attempts |-> r.attempts])
    /\ UNCHANGED <<registry, received, rxOpen, nset, indicator, study_inputs>>
    /\ UNCHANGED <<setKinds, clone, producers, script_type>>

\* a create_handler registry and its clone, both in use
NextClone ==
    \/ CloneRegistry
    \/ \E k \in Setters : \E f \in UserFns : SetterClone(k, f)
    \/ /\ Len(calls) < MaxCloneCalls
       /\ \E k \in CloneEventKinds : \E args \in ValidPayloads(k) : Invoke(k, args)
    \/ /\ Len(calls) < MaxCloneCalls
       /\ \E k \in CloneEventKinds : \E args \in ValidPayloads(k) : InvokeClone(k, args)

SpecClone == Init /\ [][NextClone]_vars

(***************************************************************************)
(* Properties                                                              *)
(***************************************************************************)
\* everything ever enqueued, oldest first: what was received, then what is buffered
Stream == received \o chan

LastCall == calls[Len(calls)]

LoadingKinds == {"on_series_loading", "on_study_loading"}

\* the Response Union variant that belongs to each event kind
MatchingVariant(k) ==
    CASE k = "on_symbol_info"        -> "SymbolInfo"
      [] k = "on_series_loading"     -> "SeriesLoading"
      [] k = "on_chart_data"         -> "ChartData"
      [] k = "on_series_completed"   -> "SeriesCompleted"
      [] k = "on_study_loading"      -> "StudyLoading"
      [] k = "on_study_data"         -> "StudyData"
      [] k = "on_study_completed"    -> "StudyCompleted"
      [] k = "on_quote_data"         -> "QuoteData"
      [] k = "on_quote_completed"    -> "QuoteCompleted"
      [] k = "on_replay_ok"          -> "ReplayOk"
      [] k = "on_replay_point"       -> "ReplayPoint"
      [] k = "on_replay_instance_id" -> "ReplayInstanceId"
      [] k = "on_replay_resolutions" -> "ReplayResolutions"
      [] k = "on_replay_data_end"    -> "ReplayDataEnd"
      [] k = "on_error"              -> "Error"
      [] k = "on_unknown_event"      -> "UnknownEvent"

\* a payload the handler of k accepts: a loading payload must decode
ValidPayload(k, args) == k \in LoadingKinds => LoadingMsgNew(args[1]).ok

\* this step is one handler invocation; NewCall is that invocation
IsInvocation == Len(calls') = Len(calls) + 1

NewCall == calls'[Len(calls')]

\* C1: on a create_handler registry with the channel open, invoking the handler of
\* any of the 16 kinds with a valid payload appends exactly one value to the
\* channel, tagged with the variant of that kind and of no other kind.
C1_OneMatchingValuePerInvocation ==
    [][ (IsInvocation /\ rxOpen /\ ValidPayload(NewCall.field, NewCall.args))
        => /\ Cardinality(Kinds) = 16
           /\ Len(Stream') = Len(Stream) + 1
           /\ SubSeq(Stream', 1, Len(Stream)) = Stream
           /\ Stream'[Len(Stream')].tag = MatchingVariant(NewCall.field)
           /\ \A other \in Kinds \ {NewCall.field} :
                 Stream'[Len(Stream')].tag # MatchingVariant(other) ]_vars

\* a decodable study-loading event was forwarded as StudyLoading on an open channel
C1_Witness ==
    /\ calls # <<>>
    /\ LastCall.field = "on_study_loading"
    /\ LastCall.open
    /\ LoadingMsgNew(LastCall.args[1]).ok
    /\ Stream # <<>>
    /\ Stream[Len(Stream)].tag = "StudyLoading"

\* what one invocation, taken alone, puts on an empty channel
ForwardedBy(call) == CallCallback(call.cb, call.args, <<>>, call.open).chan

RECURSIVE ForwardedInOrder(_)
ForwardedInOrder(cs) ==
    IF cs = <<>> THEN <<>>
    ELSE ForwardedInOrder(SubSeq(cs, 1, Len(cs) - 1)) \o ForwardedBy(cs[Len(cs)])

\* C2: the values the consumer has received, followed by those still buffered, are
\* exactly the values of the forwarded invocations in invocation order.
C2_DeliveredInInvocationOrder == Stream = ForwardedInOrder(calls)

\* chart-data then error were invoked; chart-data's value was received first
C2_Witness ==
    /\ Len(calls) >= 2
    /\ calls[1].field = "on_chart_data"
    /\ calls[2].field = "on_error"
    /\ Len(received) >= 1
    /\ received[1].tag = "ChartData"
    /\ Len(Stream) = 2
    /\ Stream[2].tag = "Error"

OtherLoadingKind(k) == IF k = "on_series_loading" THEN "on_study_loading" ELSE "on_series_loading"

\* C3: a loading payload that does not decode is not sent and is reported by exactly
\* one decode failure; on any payload the series-loading and study-loading handlers
\* take the same decision and forward the same Loading Message.
C3_UndecodableLoadingNotForwarded ==
    [][ (IsInvocation /\ NewCall.field \in LoadingKinds)
        => LET twin == ForwardingClosure(OtherLoadingKind(NewCall.field), NewCall.args, chan, rxOpen)
           IN  /\ ~LoadingMsgNew(NewCall.args[1]).ok
                    => /\ chan' = chan
                       /\ received' = received
                       /\ diag' = Append(diag, ParseError)
               /\ (chan' = chan) <=> (twin.chan = chan)
               /\ Len(diag') = Len(diag) + Len(twin.diag)
               /\ chan' # chan
                    => chan'[Len(chan')].fields = twin.chan[Len(twin.chan)].fields ]_vars

\* a series-loading payload without the series list was dropped with a decode failure
C3_Witness ==
    /\ calls # <<>>
    /\ LastCall.field = "on_series_loading"
    /\ ~LoadingMsgNew(LastCall.args[1]).ok
    /\ Len(LastCall.args[1].items) = 1
    /\ LastCall.open
    /\ Stream = <<>>
    /\ diag # <<>>
    /\ diag[Len(diag)] = ParseError

\* C4: once the consumer was closed before any handler fired, every invocation of
\* every kind logs a delivery diagnostic and sends nothing.
C4_ClosedConsumerAlwaysLogged ==
    [][ (/\ IsInvocation
         /\ ~rxOpen
         /\ \A i \in 1..Len(calls) : ~calls[i].open
         /\ ValidPayload(NewCall.field, NewCall.args))
        => /\ chan' = chan
           /\ diag' = Append(diag, SendError(MatchingVariant(NewCall.field))) ]_vars

ReservedNames == {"text", "pineId", "pineVersion"}

Compiled == study_inputs.computed /\ study_inputs.ok

\* positions of the input descriptors whose identifier is not reserved
NonReserved == { i \in 1..Len(indicator.inputs) : indicator.inputs[i].id \notin ReservedNames }

BareString(str) == [t |-> "string", v |-> str]

\* C5: the compiled map always has text, pineId and pineVersion, holding the
\* template, the script id and the script version as bare strings, whatever the
\* metadata input list declares under those identifiers.
C5_ReservedEntriesFromScript ==
    Compiled =>
        /\ ReservedNames \subseteq DOMAIN study_inputs.value
        /\ study_inputs.value["text"] = BareString(indicator.il_template.s)
        /\ study_inputs.value["pineId"] = BareString(indicator.script_id.s)
        /\ study_inputs.value["pineVersion"] = BareString(indicator.script_version.s)

\* compiled from metadata that declares an input with identifier pineId
C5_Witness ==
    /\ Compiled
    /\ \E i \in 1..Len(indicator.inputs) : indicator.inputs[i].id = "pineId"
    /\ study_inputs.value["pineId"] = BareString("STD;RSI")

\* C6 as stated: the map has 3 entries plus one per non-reserved input descriptor.
C6_CountPerDescriptor ==
    Compiled => Cardinality(DOMAIN study_inputs.value) = 3 + Cardinality(NonReserved)

\* C6 amended: the map has 3 entries plus one per distinct identifier among the
\* non-reserved input descriptors.
C6_CountPerDistinctId ==
    Compiled =>
        Cardinality(DOMAIN study_inputs.value)
            = 3 + Cardinality({ indicator.inputs[i].id : i \in NonReserved })

\* compiled from two descriptors sharing a non-reserved identifier: 4 entries
C6_Witness ==
    /\ Compiled
    /\ Len(indicator.inputs) = 2
    /\ indicator.inputs[1].id = "in_0"
    /\ indicator.inputs[2].id = "in_0"
    /\ Cardinality(DOMAIN study_inputs.value) = 4

\* the entry a descriptor is to be compiled to
EntryOf(input) ==
    [t |-> "object",
     ov |-> input.defval,
     of |-> JsonValue("bool", IF input.is_fake THEN "true" ELSE "false"),
     ot |-> JsonValue("string", input.input_type)]

\* C7 as stated: every non-reserved descriptor has its entry, carrying its own
\* default value, fake-flag and type tag.
C7_EveryDescriptorCarried ==
    Compiled =>
        \A i \in NonReserved :
            /\ indicator.inputs[i].id \in DOMAIN study_inputs.value
            /\ study_inputs.value[indicator.inputs[i].id] = EntryOf(indicator.inputs[i])

\* the last descriptor of the list that has the identifier of descriptor i
IsLastWithItsId(i) ==
    \A j \in (i + 1)..Len(indicator.inputs) : indicator.inputs[j].id # indicator.inputs[i].id

\* C7 amended: every non-reserved descriptor has an entry under its identifier,
\* and that entry carries the default value, fake-flag and type tag of the last
\* descriptor in the list with that identifier.
C7_LastDescriptorCarried ==
    Compiled =>
        \A i \in NonReserved :
            /\ indicator.inputs[i].id \in DOMAIN study_inputs.value
            /\ IsLastWithItsId(i)
                 => study_inputs.value[indicator.inputs[i].id] = EntryOf(indicator.inputs[i])

\* compiled from a fake "source" input in_1 after an integer input in_0 of default 14
C7_Witness ==
    /\ Compiled
    /\ Len(indicator.inputs) = 2
    /\ indicator.inputs[1].id = "in_0"
    /\ indicator.inputs[1].defval = JsonValue("number", "14")
    /\ indicator.inputs[2].id = "in_1"
    /\ indicator.inputs[2].is_fake
    /\ study_inputs.value["in_0"].ov = JsonValue("number", "14")
    /\ study_inputs.value["in_0"].ot = JsonValue("string", "integer")
    /\ study_inputs.value["in_1"].of = JsonValue("bool", "true")

\* C8: on the default registry with no setter called, invoking the handler of any
\* kind emits exactly one diagnostic (the trace of that kind) and leaves the
\* channel and what the consumer received unchanged.
C8_DefaultHandlerOnlyTraces ==
    [][ (IsInvocation /\ nset = 0 /\ registry = TradingViewHandlerDefault)
        => /\ diag' = Append(diag, TraceEvent(DefaultName(NewCall.field)))
           /\ chan' = chan
           /\ received' = received ]_vars

\* a default handler ran on the untouched default registry
C8_Witness ==
    /\ calls # <<>>
    /\ nset = 0
    /\ LastCall.cb.fn = "default_callback"
    /\ LastCall.field = "on_chart_data"
    /\ Len(diag) = 1
    /\ diag[1].level = "trace"
    /\ chan = <<>>

\* C9: there is a setter for each of the 16 kinds and no other; the setter of kind
\* k called with f binds f to k and leaves the binding of every other kind as it was.
C9_SetterReplacesOnlyItsKind ==
    [][ \A k \in Setters : \A f \in UserFns :
            (nset' = nset + 1 /\ Setter(k, f))
            => /\ Setters = Kinds
               /\ Len(SetterNames) = Cardinality(Kinds)
               /\ registry'[k] = user_callback(f)
               /\ \A other \in Kinds \ {k} : registry'[other] = registry[other] ]_vars

\* a setter replaced study-loading on a create_handler registry, the rest still forwards
C9_Witness ==
    /\ nset = 1
    /\ registry["on_study_loading"] = user_callback("f")
    /\ registry["on_series_loading"] = forwarding_callback("on_series_loading")
    /\ registry["on_error"] = forwarding_callback("on_error")

Callbacks ==
    { default_callback(DefaultName(k)) : k \in Kinds }
        \cup { forwarding_callback(k) : k \in Kinds }
        \cup { user_callback(f) : f \in UserFns }

\* C10: every registry, however constructed and whatever setters and handlers were
\* called since, binds each of the 16 kinds to a callback.
C10_EveryKindBound ==
    /\ DOMAIN registry = Kinds
    /\ Cardinality(Kinds) = 16
    /\ \A k \in Kinds : registry[k] # Unset /\ registry[k] \in Callbacks

\* a default registry after a setter call and a handler invocation
C10_Witness ==
    /\ nset >= 1
    /\ calls # <<>>
    /\ \E k \in Kinds : registry[k].fn = "default_callback"
    /\ \E k \in Kinds : registry[k].fn = "user"

\* C11: nothing the handlers enqueued is lost or duplicated (a step only ever adds
\* at the end of what was enqueued), and with a consumer that keeps draining, the
\* n-th value enqueued is eventually the n-th value received, also when the
\* consumer closed after it was enqueued.
C11_EnqueuedIsEventuallyReceived ==
    /\ [][ /\ Len(Stream') >= Len(Stream)
           /\ SubSeq(Stream', 1, Len(Stream)) = Stream ]_vars
    /\ \A n \in 1..MaxCalls :
          (Len(Stream) >= n) ~> (Len(received) >= n)
    /\ <>[](chan = <<>>)

\* two values were enqueued, the consumer closed, and both were received afterwards
C11_Witness ==
    /\ Len(calls) = 2
    /\ calls[1].open /\ calls[2].open
    /\ ~rxOpen
    /\ Len(received) = 2
    /\ chan = <<>>
    /\ received = ForwardedInOrder(calls)

\* the invocations producer p has begun, in its invocation order
CallsVia(p) == SelectSeq(calls, LAMBDA c : c.via = p)

Pending(p) == producers[p].pc = "body"

RECURSIVE SeqToSet(_)
SeqToSet(q) == IF q = <<>> THEN {} ELSE {Head(q)} \cup SeqToSet(Tail(q))

\* the calls of p whose send step was taken, in p's invocation order
SentVia(p) ==
    LET mine == CallsVia(p)
    IN  IF Pending(p) THEN SubSeq(mine, 1, Len(mine) - 1) ELSE mine

\* C12: with two producers firing handlers of one create_handler registry
\* concurrently, the channel holds every forwarded value exactly once, and the
\* values of each producer appear in that producer's invocation order.
C12_PerProducerOrderKept ==
    /\ Len(Stream) = Len(ForwardedInOrder(SentVia("p1"))) + Len(ForwardedInOrder(SentVia("p2")))
    /\ \A p \in Producers :
          SelectSeq(Stream, LAMBDA v : v \in SeqToSet(ForwardedInOrder(SentVia(p))))
              = ForwardedInOrder(SentVia(p))

\* p2 began first and sent last: its value lies behind the two p1 sent in order
C12_Witness ==
    /\ Len(calls) = 3
    /\ calls[1].via = "p2"
    /\ calls[2].via = "p1"
    /\ calls[3].via = "p1"
    /\ Len(Stream) = 3
    /\ Stream[1].tag = "ChartData"
    /\ Stream[2].tag = "SeriesLoading"
    /\ Stream[3].tag = "Error"

\* the text of a field: a name passed as Ustr and forwarded as String is the same
\* name; every other field is compared whole
SameContent(a, b) ==
    IF a.ty \in {"Ustr", "String"} /\ b.ty \in {"Ustr", "String"} THEN a.s = b.s ELSE a = b

\* C13: for every kind but the two loading kinds, the value put on the channel has
\* as many fields as the payload, each equal to the payload's field in the same
\* position (chart-data: series descriptor, data points; error: error, raw payload;
\* unknown: event name, raw payload).
C13_PayloadFieldsPreserved ==
    [][ (IsInvocation /\ rxOpen /\ NewCall.field \notin LoadingKinds)
        => LET v == Stream'[Len(Stream')]
           IN  /\ Len(Stream') = Len(Stream) + 1
               /\ Len(v.fields) = Len(NewCall.args)
               /\ \A i \in 1..Len(NewCall.args) : SameContent(v.fields[i], NewCall.args[i]) ]_vars

\* an unknown event evt_b and chart data with two points were forwarded
C13_Witness ==
    /\ Len(calls) = 2
    /\ calls[1].field = "on_unknown_event"
    /\ calls[1].args[1].s = "evt_b"
    /\ calls[2].field = "on_chart_data"
    /\ calls[2].args[2].v = "p1,p2"
    /\ Len(Stream) = 2
    /\ Stream[1].fields[1].s = "evt_b"
    /\ Stream[2].fields[2].v = "p1,p2"

\* how an invocation ended, read off the step that made it
EndedForwarded == Len(Stream') = Len(Stream) + 1 /\ diag' = diag

EndedSkipped == Stream' = Stream /\ diag' = Append(diag, ParseError)

EndedDeliveryLogged ==
    /\ Stream' = Stream
    /\ Len(diag') = Len(diag) + 1
    /\ diag'[Len(diag')].msg = "Failed to send response"

\* C14: no operation of the layer panics, whatever its input and the channel state,
\* and every handler invocation ends as a forwarded event, a skipped event or a
\* logged delivery failure.
C14_NothingIsFatal ==
    /\ [](~Panicked)
    /\ [][ IsInvocation => (EndedForwarded \/ EndedSkipped \/ EndedDeliveryLogged) ]_vars

\* the loading invocations whose payload failed to decode
FailedDecodes ==
    { i \in 1..Len(calls) : calls[i].field \in LoadingKinds /\ ~LoadingMsgNew(calls[i].args[1]).ok }

\* C15: after any sequence of invocations on a create_handler registry the number
\* of values ever enqueued is at most the number of invocations, and while the
\* channel is open it equals the number of invocations minus the number of
\* loading invocations whose payload failed to decode.
C15_EnqueuedAccounting ==
    /\ Len(Stream) <= Len(calls)
    /\ rxOpen => Len(Stream) = Len(calls) - Cardinality(FailedDecodes)

\* two invocations on an open channel, one of them a loading event that failed
\* to decode: one value was enqueued
C15_Witness ==
    /\ rxOpen
    /\ Len(calls) = 2
    /\ Cardinality(FailedDecodes) = 1
    /\ Len(Stream) = 1

\* the indicator with the descriptors at the positions in skipped left out
WithoutInputs(skipped) ==
    [indicator EXCEPT !.inputs =
        LET keep(i) == i \notin skipped
            RECURSIVE Kept(_)
            Kept(i) == IF i > Len(indicator.inputs) THEN <<>>
                       ELSE (IF keep(i) THEN << indicator.inputs[i] >> ELSE <<>>) \o Kept(i + 1)
        IN  Kept(1)]

\* positions of the descriptors whose name, resp. identifier, is reserved
ReservedByName == { i \in 1..Len(indicator.inputs) : indicator.inputs[i].name \in ReservedNames }

ReservedById == { i \in 1..Len(indicator.inputs) : indicator.inputs[i].id \in ReservedNames }

\* C16 as stated: every descriptor whose name is reserved is skipped whatever its
\* identifier: the compiled map is the map of the list without those descriptors.
C16_ReservedNameSkipped ==
    Compiled => study_inputs.value = to_study_inputs(WithoutInputs(ReservedByName)).value

\* C16 amended: every descriptor whose identifier is reserved is skipped whatever
\* its name: the compiled map is the map of the list without those descriptors,
\* and a descriptor with a reserved name and another identifier keeps its entry.
C16_ReservedIdSkipped ==
    Compiled =>
        /\ study_inputs.value = to_study_inputs(WithoutInputs(ReservedById)).value
        /\ \A i \in ReservedByName \ ReservedById :
               indicator.inputs[i].id \in DOMAIN study_inputs.value

\* compiled from a descriptor named Length with identifier pineVersion, skipped,
\* and a descriptor named text with identifier in_0, which has its entry
C16_Witness ==
    /\ Compiled
    /\ Len(indicator.inputs) = 2
    /\ indicator.inputs[1].name = "Length" /\ indicator.inputs[1].id = "pineVersion"
    /\ indicator.inputs[2].name = "text" /\ indicator.inputs[2].id = "in_0"
    /\ DOMAIN study_inputs.value = ReservedNames \cup {"in_0"}
    /\ study_inputs.value["pineVersion"] = BareString("33.0")
    /\ study_inputs.value["in_0"] = EntryOf(indicator.inputs[2])

BuiltByCreateHandler ==
    \A k \in Kinds \ setKinds : registry[k] = forwarding_callback(k)

\* C18: on a registry built by create_handler, once the setter of kind K was
\* called every invocation of K's handler runs the user function only (nothing is
\* sent, nothing is logged), while an invocation of any other kind still does
\* exactly what its forwarding closure does.
C18_SetterSilencesOnlyItsKind ==
    [][ (IsInvocation /\ BuiltByCreateHandler)
        => /\ NewCall.field \in setKinds
                => /\ NewCall.cb.fn = "user"
                   /\ NewCall.attempts = 0
                   /\ chan' = chan
                   /\ diag' = diag
           /\ NewCall.field \notin setKinds
                => LET r == ForwardingClosure(NewCall.field, NewCall.args, chan, rxOpen)
                   IN  /\ chan' = r.chan
                       /\ diag' = diag \o r.diag
                       /\ NewCall.attempts = 1
                       /\ Len(chan') = Len(chan) + 1
                       /\ chan'[Len(chan')].tag = MatchingVariant(NewCall.field) ]_vars

\* on a create_handler registry the chart-data setter was called, then the
\* chart-data handler fired and nothing reached the channel
C18_Witness ==
    /\ setKinds = {"on_chart_data"}
    /\ BuiltByCreateHandler
    /\ registry["on_error"] = forwarding_callback("on_error")
    /\ calls # <<>>
    /\ LastCall.field = "on_chart_data"
    /\ LastCall.cb = user_callback("f")
    /\ chan = <<>>
    /\ diag = <<>>

\* C19: the clone of a create_handler registry holds the handlers of the original,
\* an event fired through the clone's forwarding handler is enqueued at the tail
\* of the one channel exactly as through the original, and a setter called on the
\* clone rebinds that kind in the clone only: the original's bindings stay.
C19_CloneSharesHandlers ==
    [][ /\ (clone = NoClone /\ clone' # NoClone)
            => /\ DOMAIN clone' = Kinds
               /\ \A k \in Kinds : clone'[k] = registry[k]
               /\ registry' = registry
        /\ (IsInvocation /\ NewCall.cb = forwarding_callback(NewCall.field))
            => /\ NewCall.via \in {"original", "clone"}
               /\ Len(chan') = Len(chan) + 1
               /\ SubSeq(chan', 1, Len(chan)) = chan
               /\ chan'[Len(chan')].tag = MatchingVariant(NewCall.field)
        /\ (clone # NoClone /\ nset' = nset + 1)
            => /\ registry' = registry
               /\ \E k \in Kinds : \E f \in UserFns :
                     /\ clone'[k] = user_callback(f)
                     /\ \A other \in Kinds \ {k} : clone'[other] = clone[other] ]_vars

\* the error setter was called on the clone; a chart-data event fired through the
\* original and one fired through the clone are both in the channel, in that order
C19_Witness ==
    /\ clone # NoClone
    /\ clone["on_error"] = user_callback("f")
    /\ registry["on_error"] = forwarding_callback("on_error")
    /\ registry = create_handler
    /\ Len(calls) = 2
    /\ calls[1].via = "original" /\ calls[2].via = "clone"
    /\ calls[1].field = "on_chart_data" /\ calls[2].field = "on_chart_data"
    /\ Len(chan) = 2
    /\ chan[1].tag = "ChartData" /\ chan[2].tag = "ChartData"

\* the diagnostics the step emitted
NewDiag == SubSeq(diag', Len(diag) + 1, Len(diag'))

\* C20: in the two loading handlers the decode comes first: an undecodable payload
\* yields the decode diagnostic only and no send attempt, with the consumer open
\* or closed, and a delivery diagnostic is emitted only for a payload that decoded
\* and was sent to a closed consumer.
C20_DecodePrecedesSend ==
    [][ (IsInvocation /\ NewCall.field \in LoadingKinds)
        => /\ ~LoadingMsgNew(NewCall.args[1]).ok
                => /\ NewCall.attempts = 0
                   /\ chan' = chan
                   /\ NewDiag = << ParseError >>
           /\ (\E i \in 1..Len(NewDiag) : NewDiag[i] = SendError(MatchingVariant(NewCall.field)))
                => /\ LoadingMsgNew(NewCall.args[1]).ok
                   /\ NewCall.attempts = 1
                   /\ ~rxOpen ]_vars

\* an undecodable series-loading payload arrived after the consumer closed: the
\* only diagnostic is the decode failure
C20_Witness ==
    /\ calls # <<>>
    /\ LastCall.field = "on_series_loading"
    /\ ~LastCall.open
    /\ ~LoadingMsgNew(LastCall.args[1]).ok
    /\ LastCall.attempts = 0
    /\ diag = << ParseError >>

====
